---- MODULE Spec2Model ----
(***************************************************************************)
(* ASOS product scraper: the listing-only actor (src/src/main.js) and the  *)
(* listing-then-detail actor (src/unnamed/part_000).                       *)
(*                                                                         *)
(* A run is the main script (process 0) plus the request handlers the      *)
(* crawler has started (processes 1..MaxWorkers).  Every action is the     *)
(* code a process runs between two awaits.  The site (what each listing    *)
(* URL answers, and what the search API answers for it) and the actor      *)
(* input are chosen in the initial state and never change.                 *)
(***************************************************************************)
EXTENDS Integers, Sequences, FiniteSets, TLC

\* ------------------------------------------------------------ bounds
MaxPage == 2            \* listing pages of the site that may hold products
MaxWorkers == 2         \* handler executions alive at the same time
MaxTimeouts == 1        \* handler timeouts the crawler may raise in a run
MaxItems == 2           \* products of a generated listing
MaxWanted == 3          \* results_wanted of the generated runs

\* ------------------------------------------------- program constants
BATCH_SIZE == 10
maxRequestRetries == 2
limit == 72
defaultResultsWanted == 20

\* ------------------------------------------------- encodings of values
NoId == 0               \* '' : the id of a product without id / productId
NoUrl == 0              \* undefined url
NoNum == -1             \* null / undefined where a number is expected
DomBase == 100          \* the placeholder id `dom-${i}` is DomBase + i
ProductCodeBase == 40   \* the id of a product page's own data, by its url
SiteRoot == 900         \* 'https://www.asos.com' + '' (API product without url)

Min(a, b) == IF a < b THEN a ELSE b

\* =====================================================================
\* Raw products, as the strategies deliver them
\* =====================================================================
\* kind: "ok" an object with fields of the expected types; "null" a null
\* entry of the array; "badtype" an object whose url is not a string.
Prod(id, name, url, value, previous) ==
    [kind |-> "ok", id |-> id, name |-> name, url |-> url,
     price |-> [value |-> value, text |-> NoNum, previous |-> previous, marked |-> FALSE]]

NullEntry == [Prod(NoId, "", NoUrl, NoNum, NoNum) EXCEPT !.kind = "null"]

BadType(p) == [p EXCEPT !.kind = "badtype"]

\* String(p.id || p.productId || '')
ProductId(p) == p.id

\* parsePriceText(text): a price text stands here for the number its first
\* run of digits denotes once the commas are removed (NoNum: no text, or
\* no digits in it)
parsePriceText(text) == text

\* extractPriceValue(price): the numeric current price, else the number
\* read from the price text, else null
extractPriceValue(price) ==
    IF price.value # NoNum THEN price.value ELSE parsePriceText(price.text)

\* a mutation of pricePasses: with a bound set, an unknown price fails
pricePassesKnownOnly(price, min, max) ==
    LET value == extractPriceValue(price) IN
    IF (min # NoNum \/ max # NoNum) /\ value = NoNum THEN FALSE
    ELSE IF min # NoNum /\ value < min THEN FALSE
    ELSE IF max # NoNum /\ value > max THEN FALSE
    ELSE TRUE

\* pricePasses(priceObj, min, max)
pricePasses(price, min, max) ==
    LET value == extractPriceValue(price) IN
    IF min # NoNum /\ value # NoNum /\ value < min THEN FALSE
    ELSE IF max # NoNum /\ value # NoNum /\ value > max THEN FALSE
    ELSE TRUE

\* transformToFinalFormat(p) raises a TypeError (productUrl.startsWith is
\* not a function) when p.url is truthy and not a string
TransformRaises(p) == p.kind = "badtype"

\* transformToFinalFormat(p), for a p it does not raise on.  A price is
\* formatted only when truthy (0 gives null).
transformToFinalFormat(p) ==
    LET currentPrice == extractPriceValue(p.price)
        originalPrice == p.price.previous
        discounted == originalPrice > 0 /\ currentPrice > 0 /\ originalPrice > currentPrice
    IN [product_id |-> ProductId(p),
        title |-> p.name,
        price |-> IF currentPrice > 0 THEN currentPrice ELSE NoNum,
        original_price |-> IF originalPrice > 0 THEN originalPrice ELSE NoNum,
        is_sale |-> p.price.marked \/ discounted,
        product_url |-> p.url]

\* normalizeApiProduct(product) raises (product.url?.startsWith is not a
\* function) when the url is truthy and not a string
NormalizeRaises(p) == p.kind = "badtype"

\* normalizeApiProduct(product): null for a falsy entry; the url is made
\* absolute, so a missing url becomes the site root
normalizeApiProduct(p) ==
    IF p.kind = "null" THEN NullEntry
    ELSE [p EXCEPT !.url = IF p.url = NoUrl THEN SiteRoot ELSE p.url,
                   !.price.marked = p.price.marked
                       \/ (p.price.previous > 0 /\ p.price.value > 0
                           /\ p.price.previous > p.price.value)]

\* =====================================================================
\* Payloads, scripts and pages
\* =====================================================================
PathNames == <<"plp.products", "plp.results", "search.products", "search.results",
               "props.pageProps.searchResults.products", "props.pageProps.plp.products",
               "products">>

Absent == [present |-> FALSE, items |-> <<>>]
Arr(items) == [present |-> TRUE, items |-> items]

NoPagBlock == [present |-> FALSE, page |-> NoNum, totalPages |-> NoNum]
PagBlock(page, totalPages) == [present |-> TRUE, page |-> page, totalPages |-> totalPages]

\* null (or any falsy JSON value)
NullPayload == [ok |-> FALSE, paths |-> [i \in 1..Len(PathNames) |-> Absent],
                pagination |-> NoPagBlock]
\* an object that holds none of the known keys
EmptyObject == [NullPayload EXCEPT !.ok = TRUE]

\* an object whose only known products path is number k
PayloadAt(k, items, pag) ==
    [ok |-> TRUE,
     paths |-> [i \in 1..Len(PathNames) |-> IF i = k THEN Arr(items) ELSE Absent],
     pagination |-> pag]

HasKeys(data) ==
    data.ok /\ (data.pagination.present \/ \E i \in 1..Len(PathNames) : data.paths[i].present)

\* A text handed to JSON.parse: "json" parses as it is, "escaped" parses
\* only after the &quot; cleanup, "invalid" never parses, "empty" is ''.
Text(form, value) == [form |-> form, value |-> value]
NoText == Text("empty", NullPayload)

\* parseJsonSafe(str)
parseJsonSafe(str) ==
    IF str.form = "empty" THEN NullPayload
    ELSE IF str.form = "json" THEN str.value
    ELSE IF str.form = "escaped" THEN str.value
    ELSE NullPayload

\* A script block.  dataId: the tag carries data-id="window.asos...";
\* whole: its trimmed body as a JSON text; mentions: the body includes
\* 'window.asos'; capture: what /window\.asos\s*=\s*(\{[\s\S]*?\});?/
\* captures ("empty": no match); run: what running the body in the vm
\* does ("ok": window.asos is left as `result`; "throws": it raises or
\* times out).
Script(dataId, whole, mentions, capture, run, result) ==
    [dataId |-> dataId, whole |-> whole, mentions |-> mentions, capture |-> capture,
     run |-> run, result |-> result]

\* the search API's answer for a listing page
ApiError == [outcome |-> "error", products |-> <<>>, itemCount |-> 0]
ApiNoBody == [outcome |-> "nobody", products |-> <<>>, itemCount |-> 0]
ApiOk(products, itemCount) == [outcome |-> "ok", products |-> products, itemCount |-> itemCount]

\* a product tile of the DOM: href "none" (no link or no href), "prd" /
\* "grp" (the href holds /prd/<num> or /grp/<num>), "other"
Tile(href, num, url, name, value) ==
    [href |-> href, num |-> num, url |-> url, name |-> name, value |-> value]

NoNextData == [form |-> "none", value |-> NullPayload]

MkPage(scripts, nextData, tiles, api) ==
    [scripts |-> scripts, nextData |-> nextData, tiles |-> tiles, api |-> api]

EmptyPage == MkPage(<<>>, NoNextData, <<>>, ApiError)

\* =====================================================================
\* Extraction (pure functions of the page)
\* =====================================================================
RECURSIVE ScanDataIdAbort(_, _)
\* a mutation of ScanDataId: a data-id block that does not parse ends the scan
ScanDataIdAbort(scripts, i) ==
    IF i > Len(scripts) THEN NullPayload
    ELSE IF scripts[i].dataId /\ parseJsonSafe(scripts[i].whole).ok
         THEN parseJsonSafe(scripts[i].whole)
    ELSE IF scripts[i].dataId THEN NullPayload
    ELSE ScanDataIdAbort(scripts, i + 1)

RECURSIVE ScanDataId(_, _)
\* extractWindowAsos, first loop: the data-id script blocks in page order
ScanDataId(scripts, i) ==
    IF i > Len(scripts) THEN NullPayload
    ELSE IF scripts[i].dataId /\ parseJsonSafe(scripts[i].whole).ok
         THEN parseJsonSafe(scripts[i].whole)
    ELSE ScanDataId(scripts, i + 1)

RECURSIVE ScanInline(_, _, _)
\* extractWindowAsos, second loop over every script block: the captured
\* literal is tried as JSON, otherwise the whole script is run in the vm.
\* The result comes with `runs`, the scripts that were run.
ScanInline(scripts, i, runs) ==
    IF i > Len(scripts) THEN [result |-> NullPayload, runs |-> runs]
    ELSE LET s == scripts[i] IN
         IF ~s.mentions THEN ScanInline(scripts, i + 1, runs)
         ELSE IF parseJsonSafe(s.capture).ok
              THEN [result |-> parseJsonSafe(s.capture), runs |-> runs]
         ELSE IF s.run = "ok" /\ HasKeys(s.result)
              THEN [result |-> s.result, runs |-> runs + 1]
         ELSE ScanInline(scripts, i + 1, runs + 1)

\* extractWindowAsos(html)
extractWindowAsos(scripts) ==
    IF ScanDataId(scripts, 1).ok THEN [result |-> ScanDataId(scripts, 1), runs |-> 0]
    ELSE ScanInline(scripts, 1, 0)

\* extractNextData(html)
extractNextData(nextData) ==
    IF nextData.form = "json" THEN nextData.value ELSE NullPayload

\* getProductsFromWindow(data): the || chain returns the first truthy
\* value, and every array is truthy
getProductsFromWindow(data) ==
    IF ~data.ok THEN <<>>
    ELSE IF \E i \in 1..Len(PathNames) : data.paths[i].present
         THEN LET first == CHOOSE i \in 1..Len(PathNames) :
                              /\ data.paths[i].present
                              /\ \A j \in 1..(i - 1) : ~data.paths[j].present
              IN data.paths[first].items
    ELSE <<>>

\* PaginationInfo; totalPages NoNum stands for null
PageInfo(page, pageSize, totalPages, totalResults) ==
    [present |-> TRUE, page |-> page, pageSize |-> pageSize,
     totalPages |-> totalPages, totalResults |-> totalResults]
NoPagination == [PageInfo(NoNum, NoNum, NoNum, NoNum) EXCEPT !.present = FALSE]

\* extractPagination(obj)
extractPagination(obj) ==
    IF ~obj.ok \/ ~obj.pagination.present THEN NoPagination
    ELSE LET p == obj.pagination IN
         PageInfo(IF p.page = NoNum THEN 1 ELSE p.page,
                  limit,
                  IF p.totalPages = NoNum \/ p.totalPages = 0 THEN NoNum ELSE p.totalPages,
                  NoNum)

\* A URL.  A listing: the search keyword and the page parameter (NoNum:
\* none); a product page: the product's url
Url(q, page) == [q |-> q, page |-> page, prd |-> NoUrl]
ProductUrl(u) == [q |-> "", page |-> NoNum, prd |-> u]
NullUrl == Url("", NoNum)

\* Number(u.searchParams.get('page') || 1)
UrlPage(url) == IF url.page = NoNum THEN 1 ELSE url.page

\* extractPaginationFromUrl(url)
extractPaginationFromUrl(url) == PageInfo(UrlPage(url), NoNum, NoNum, NoNum)

\* a mutation of nextPageUrl: totalPages is not looked at
nextPageUrlUnbounded(currentUrl, pageInfo, productsOnPage) ==
    IF productsOnPage = 0 THEN NullUrl
    ELSE [currentUrl EXCEPT !.page = IF pageInfo.present /\ pageInfo.page # 0
                                     THEN pageInfo.page + 1 ELSE UrlPage(currentUrl) + 1]

\* nextPageUrl(currentUrl, pageInfo, productsOnPage)
nextPageUrl(currentUrl, pageInfo, productsOnPage) ==
    IF productsOnPage = 0 THEN NullUrl
    ELSE LET currentPage == IF pageInfo.present /\ pageInfo.page # 0
                            THEN pageInfo.page ELSE UrlPage(currentUrl)
             totalPages == IF pageInfo.present THEN pageInfo.totalPages ELSE NoNum
         IN IF totalPages # NoNum /\ totalPages # 0 /\ currentPage >= totalPages
            THEN NullUrl
            ELSE [currentUrl EXCEPT !.page = currentPage + 1]

\* fetchSearchAPI(keyword, page, options): `api` is what the site answers
fetchSearchAPI(api, page) ==
    LET offset == page * limit IN
    IF api.outcome # "ok"
    THEN [products |-> <<>>, itemCount |-> 0, pagination |-> NoPagination]
    ELSE [products |-> api.products, itemCount |-> api.itemCount,
          pagination |-> PageInfo(offset \div limit, limit,
                                  (api.itemCount + limit - 1) \div limit, api.itemCount)]

RECURSIVE DomFrom(_, _)
\* parseDomProducts(html, $): tiles.each from tile i (1-based here, the
\* callback's index is i - 1)
DomFrom(tiles, i) ==
    IF i > Len(tiles) THEN <<>>
    ELSE LET t == tiles[i] IN
         IF t.href = "none" THEN DomFrom(tiles, i + 1)
         ELSE <<Prod(IF t.href \in {"prd", "grp"} THEN t.num ELSE DomBase + (i - 1),
                     t.name, t.url, t.value, NoNum)>> \o DomFrom(tiles, i + 1)

\* a mutation of parseDomProducts: a tile is kept only when its href holds
\* a product or group id
parseDomStrict(tiles) == SelectSeq(DomFrom(tiles, 1), LAMBDA p : p.id < DomBase)

parseDomProducts(tiles) == DomFrom(tiles, 1)

\* =====================================================================
\* State
\* =====================================================================
VARIABLES
    actor,            \* which actor runs: "listing-only" or "two-hop"
    site,             \* the listing pages of the site, by page number
    detail,           \* what the product pages of the site carry
    resultsWanted,    \* input results_wanted, after Math.max(1, ...)
    minPrice,         \* input minPrice (NoNum: not given)
    maxPrice,         \* input maxPrice (NoNum: not given)
    seenIds,          \* const seenIds = new Set()
    saved,            \* let saved = 0
    shouldStop,       \* let shouldStop = false
    extractionStats,  \* const extractionStats
    productBuffer,    \* const productBuffer = []
    persisted,        \* the arrays Dataset.pushData was given, as it read them
    queue,            \* the crawler's pending requests
    known,            \* the URLs the request queue has ever been given
    addLog,           \* every URL handed to crawlerInstance.addRequests
    apiCalls,         \* every call of fetchSearchAPI: keyword and 0-indexed page
    vmRuns,           \* scripts run by vm.runInNewContext so far
    extracted,        \* what the waterfall of each handled listing came to
    savedLog,         \* the product ids pushed to productBuffer, in order
    timeouts,         \* handler timeouts raised so far
    pc,               \* where each process stands
    h,                \* the local variables of each handler execution
    call              \* a call of a utility function: its arguments and result

vars == <<actor, site, detail, resultsWanted, minPrice, maxPrice, seenIds, saved, shouldStop,
          extractionStats, productBuffer, persisted, queue, known, addLog, apiCalls,
          vmRuns, extracted, savedLog, timeouts, pc, h, call>>

inputs == <<actor, site, detail, resultsWanted, minPrice, maxPrice>>

Main == 0
Workers == 1..MaxWorkers

\* a request of the queue; userData: { label, listingProduct }
Req(url, retries, label, listingProduct) ==
    [url |-> url, retries |-> retries, label |-> label, listingProduct |-> listingProduct]

NoLoc == [url |-> NullUrl, retries |-> 0, label |-> "LISTING", listingProduct |-> NullEntry,
          zombie |-> FALSE, windowAsos |-> NullPayload,
          products |-> <<>>, method |-> "none", pagination |-> NoPagination,
          toSave |-> <<>>, i |-> 0]

\* no utility function is called on its own
NoCall == [fn |-> "none", done |-> TRUE]

\* what the listing URL answers
PageOf(url) == IF UrlPage(url) \in 1..Len(site) THEN site[UrlPage(url)] ELSE EmptyPage

\* The state a handler step reads and writes, as one record
World(w) ==
    [seenIds |-> seenIds, saved |-> saved, shouldStop |-> shouldStop,
     extractionStats |-> extractionStats, productBuffer |-> productBuffer,
     queue |-> queue, known |-> known, addLog |-> addLog, apiCalls |-> apiCalls,
     vmRuns |-> vmRuns, extracted |-> extracted, savedLog |-> savedLog,
     pc |-> pc[w], loc |-> h[w]]

Commit(w, W) ==
    /\ seenIds' = W.seenIds
    /\ saved' = W.saved
    /\ shouldStop' = W.shouldStop
    /\ extractionStats' = W.extractionStats
    /\ productBuffer' = W.productBuffer
    /\ queue' = W.queue
    /\ known' = W.known
    /\ addLog' = W.addLog
    /\ apiCalls' = W.apiCalls
    /\ vmRuns' = W.vmRuns
    /\ extracted' = W.extracted
    /\ savedLog' = W.savedLog
    /\ pc' = [pc EXCEPT ![w] = W.pc]
    /\ h' = [h EXCEPT ![w] = IF W.pc = "idle" THEN NoLoc ELSE W.loc]
    /\ UNCHANGED <<inputs, call, persisted, timeouts>>

\* =====================================================================
\* The request handler of the listing-only actor, between awaits
\* =====================================================================
\* a mutation of Slice0: slice(1, n + 1), the window shifted by one
SliceFromSecond(s, n) == SubSeq(s, 2, Min(n + 1, Len(s)))

\* Array.prototype.slice(0, n)
Slice0(s, n) ==
    IF n >= 0 THEN SubSeq(s, 1, Min(n, Len(s)))
    ELSE SubSeq(s, 1, IF Len(s) + n > 0 THEN Len(s) + n ELSE 0)

\* a mutation of Filtered: the price bounds are not applied
FilteredAll(products) == products

\* products.filter((p) => pricePasses(p.price, minPrice, maxPrice))
Filtered(products) ==
    SelectSeq(products, LAMBDA p : pricePasses(p.price, minPrice, maxPrice))

\* the handler returns
Complete(W) == [W EXCEPT !.pc = "idle"]

\* the handler raises: the crawler reclaims the request for a retry, unless
\* it has retried it maxRequestRetries times or has already given this
\* execution up (timeout)
Fail(W) ==
    [W EXCEPT !.pc = "idle",
              !.queue = IF ~W.loc.zombie /\ W.loc.retries < maxRequestRetries
                        THEN @ \cup {Req(W.loc.url, W.loc.retries + 1, W.loc.label,
                                          W.loc.listingProduct)}
                        ELSE @]

\* crawlerInstance.addRequests([{ url, userData }]): the queue ignores a
\* URL it knows
addRequests(W, url, label, listingProduct) ==
    [W EXCEPT !.addLog = Append(@, url),
              !.queue = IF url \in W.known THEN @
                        ELSE @ \cup {Req(url, 0, label, listingProduct)},
              !.known = @ \cup {url}]

\* pushBufferedData(force): whether it calls Dataset.pushData
pushBufferedData(buffer, force) ==
    Len(buffer) >= BATCH_SIZE \/ (force /\ Len(buffer) > 0)

\* a mutation of Paginate: the next page is requested whatever `saved` is
PaginateAlways(W) ==
    LET loc == W.loc
        pagination == IF extractPagination(loc.windowAsos).present
                      THEN extractPagination(loc.windowAsos)
                      ELSE extractPaginationFromUrl(loc.url)
        nextUrl == nextPageUrl(loc.url, pagination, Len(loc.products))
    IN IF nextUrl # NullUrl THEN Complete(addRequests(W, nextUrl, "LISTING", NullEntry))
       ELSE Complete(W)

\* "Listing Pagination" and the handler's return
Paginate(W) ==
    LET loc == W.loc
        filtered == Filtered(loc.products)
    IN IF W.saved < resultsWanted /\ Len(loc.toSave) = Len(filtered)
       THEN LET pagination == IF extractPagination(loc.windowAsos).present
                              THEN extractPagination(loc.windowAsos)
                              ELSE extractPaginationFromUrl(loc.url)
                nextUrl == nextPageUrl(loc.url, pagination, Len(loc.products))
            IN IF nextUrl # NullUrl
               THEN Complete(addRequests(W, nextUrl, "LISTING", NullEntry))
               ELSE Complete(W)
       ELSE Complete(W)

\* a mutation of IsDuplicate: the seen-id set is never consulted
IsDuplicateNever(seen, id) == FALSE

\* `id && seenIds.has(id)`
IsDuplicate(seen, id) == id # NoId /\ id \in seen

\* a mutation of EntryCheck: a request is handled whatever `saved` is
EntryCheckNever(stop, n) == FALSE

\* `if (shouldStop || saved >= resultsWanted) return`, at the entry of
\* requestHandler and of handleDetail
EntryCheck(stop, n) == stop \/ n >= resultsWanted

RECURSIVE SaveLoop(_, _)
\* for (const p of toSave), from item i up to the next await (the call of
\* pushBufferedData after a save), the end of the loop, or a raise
SaveLoop(W, i) ==
    IF i > Len(W.loc.toSave) THEN Paginate(W)
    ELSE IF W.saved >= resultsWanted THEN Paginate([W EXCEPT !.shouldStop = TRUE])
    ELSE LET p == W.loc.toSave[i]
             id == ProductId(p)
         IN IF IsDuplicate(W.seenIds, id) THEN SaveLoop(W, i + 1)
            ELSE LET W1 == [W EXCEPT !.seenIds = IF id # NoId THEN @ \cup {id} ELSE @]
                     finalProduct == transformToFinalFormat(p)
                 IN IF TransformRaises(p) THEN Fail(W1)
                    ELSE IF finalProduct.product_id = NoId \/ finalProduct.title = ""
                            \/ finalProduct.product_url = NoUrl
                         THEN SaveLoop(W1, i + 1)
                    ELSE LET W2 == [W1 EXCEPT !.productBuffer = Append(@, finalProduct),
                                              !.savedLog = Append(@, finalProduct.product_id),
                                              !.saved = @ + 1,
                                              !.loc.i = i]
                         IN [W2 EXCEPT !.pc = IF pushBufferedData(W2.productBuffer, FALSE)
                                               THEN "pushData" ELSE "pushed"]

\* a mutation of AfterPush: the listing handler stops the run after any save
AfterPushStops(W) ==
    IF W.loc.label = "DETAIL" THEN Complete(W)
    ELSE Paginate([W EXCEPT !.shouldStop = TRUE])

\* after `await pushBufferedData()`: handleDetail returns; the listing
\* handler runs the rest of the loop body, then on
AfterPush(W) ==
    IF W.loc.label = "DETAIL" THEN Complete(W)
    ELSE IF W.saved >= resultsWanted THEN Paginate([W EXCEPT !.shouldStop = TRUE])
    ELSE SaveLoop(W, W.loc.i + 1)

\* the log line of the strategy that delivered (or "none")
Extracted(W) ==
    [W EXCEPT !.extracted = @ \cup {[url |-> W.loc.url, method |-> W.loc.method,
                                     products |-> W.loc.products]}]

\* a mutation of SaveFromListing: a listing without products stops the run
SaveFromListingOrStop(W) ==
    IF Len(W.loc.products) = 0 THEN Complete([W EXCEPT !.shouldStop = TRUE])
    ELSE SaveLoop([W EXCEPT !.loc.toSave =
                       Slice0(Filtered(W.loc.products), resultsWanted - W.saved)], 1)

\* from `if (!products.length)` after the waterfall to the first await
SaveFromListing(W) ==
    LET products == W.loc.products IN
    IF Len(products) = 0 THEN Complete(W)
    ELSE IF \E k \in 1..Len(products) : products[k].kind = "null" THEN Fail(W)
    ELSE LET filtered == Filtered(products)
             needed == resultsWanted - W.saved
             toSave == Slice0(filtered, needed)
         IN SaveLoop([W EXCEPT !.loc.toSave = toSave], 1)

\* =====================================================================
\* The listing-then-detail actor: its listing loop and handleDetail
\* =====================================================================
RECURSIVE EnqueueLoop(_, _)
\* for (const p of toEnqueue), from item i up to the next await (the call
\* of addRequests for a product page), the end of the loop, or a raise
EnqueueLoop(W, i) ==
    IF i > Len(W.loc.toSave) THEN Paginate(W)
    ELSE IF W.saved >= resultsWanted THEN Paginate([W EXCEPT !.shouldStop = TRUE])
    ELSE LET p == W.loc.toSave[i]
             id == ProductId(p)
         IN IF IsDuplicate(W.seenIds, id) THEN EnqueueLoop(W, i + 1)
            ELSE LET W1 == [W EXCEPT !.seenIds = IF id # NoId THEN @ \cup {id} ELSE @]
                 IN IF p.kind = "badtype" THEN Fail(W1)
                    ELSE IF p.url = NoUrl THEN EnqueueLoop(W1, i + 1)
                    ELSE [addRequests(W1, ProductUrl(p.url), "DETAIL", p)
                             EXCEPT !.pc = "adding", !.loc.i = i]

\* from `if (!products.length)` after the waterfall to the first await
EnqueueFromListing(W) ==
    LET products == W.loc.products IN
    IF Len(products) = 0 THEN Complete(W)
    ELSE IF \E k \in 1..Len(products) : products[k].kind = "null" THEN Fail(W)
    ELSE LET filtered == Filtered(products)
             needed == resultsWanted - W.saved
             toEnqueue == Slice0(filtered, needed)
         IN EnqueueLoop([W EXCEPT !.loc.toSave = toEnqueue], 1)

\* pdp.product of the page at a product URL ("null" kind: the page has none;
\* "shared": every product page of the site reports the same product id)
PdpProduct(url) ==
    IF detail = "pdp" THEN Prod(ProductCodeBase + url.prd, "pdp", url.prd, NoNum, NoNum)
    ELSE IF detail = "shared" THEN Prod(ProductCodeBase, "pdp", url.prd, NoNum, NoNum)
    ELSE IF detail = "blank" THEN Prod(NoId, "", NoUrl, NoNum, NoNum)
    ELSE NullEntry

\* handleDetail($, request, body), up to its await
HandleDetail(W) ==
    IF EntryCheck(W.shouldStop, W.saved) THEN Complete(W)
    ELSE LET p == PdpProduct(W.loc.url)
             listingProduct == W.loc.listingProduct
             priceVal == extractPriceValue(listingProduct.price)
             item == IF p.kind = "ok"
                     THEN [product_id |-> IF p.id # NoId THEN p.id ELSE listingProduct.id,
                           title |-> p.name,
                           price |-> NoNum,
                           original_price |-> NoNum,
                           is_sale |-> FALSE,
                           product_url |-> W.loc.url.prd]
                     ELSE [product_id |-> listingProduct.id,
                           title |-> listingProduct.name,
                           price |-> IF priceVal > 0 THEN priceVal ELSE NoNum,
                           original_price |-> IF listingProduct.price.previous > 0
                                              THEN listingProduct.price.previous ELSE NoNum,
                           is_sale |-> listingProduct.price.marked,
                           product_url |-> W.loc.url.prd]
         IN IF item.product_id = NoId \/ item.title = "" THEN Complete(W)
            ELSE LET W2 == [W EXCEPT !.productBuffer = Append(@, item),
                                     !.savedLog = Append(@, item.product_id),
                                     !.saved = @ + 1]
                     W3 == [W2 EXCEPT !.shouldStop = @ \/ W2.saved >= resultsWanted]
                 IN [W3 EXCEPT !.pc = IF pushBufferedData(W3.productBuffer, FALSE)
                                       THEN "pushData" ELSE "pushed"]

\* what follows the waterfall: the save loop, or the enqueue loop
FromListing(W) ==
    IF actor = "two-hop" THEN EnqueueFromListing(W) ELSE SaveFromListing(W)

\* =====================================================================
\* The waterfall and the steps of a run
\* =====================================================================
\* a mutation of StepApi: the API's answer is never used
StepApiUnused(W, page) == W

\* waterfall step 2, from the API's answer on
StepApi(W, page) ==
    LET apiResponse == fetchSearchAPI(page.api, UrlPage(W.loc.url) - 1)
        raw == apiResponse.products
    IN IF Len(raw) > 0 /\ ~\E k \in 1..Len(raw) : NormalizeRaises(raw[k])
       THEN [W EXCEPT !.loc.products =
                          SelectSeq([k \in 1..Len(raw) |-> normalizeApiProduct(raw[k])],
                                    LAMBDA p : p.kind # "null"),
                      !.loc.pagination = apiResponse.pagination,
                      !.loc.method = "REST API",
                      !.extractionStats.restApi = @ + 1]
       ELSE W

\* waterfall step 3
StepNextData(W, page) ==
    LET nextData == extractNextData(page.nextData)
        products == getProductsFromWindow(nextData)
    IN IF Len(W.loc.products) = 0 /\ Len(products) > 0
       THEN [W EXCEPT !.loc.products = products,
                      !.loc.method = "__NEXT_DATA__",
                      !.loc.pagination = extractPagination(nextData),
                      !.extractionStats.nextData = @ + 1]
       ELSE W

\* waterfall step 4
StepDom(W, page) ==
    LET products == parseDomProducts(page.tiles)
    IN IF Len(W.loc.products) = 0 /\ Len(products) > 0
       THEN [W EXCEPT !.loc.products = products,
                      !.loc.method = "DOM parsing",
                      !.loc.pagination = extractPaginationFromUrl(W.loc.url),
                      !.extractionStats.domParsing = @ + 1]
       ELSE W

\* An await of a promise that is already resolved (pushBufferedData when
\* it does not flush) resumes in a microtask, before the event loop takes
\* any timer or I/O completion: no other step runs in between.
NoMicrotaskPending == \A w \in Workers : pc[w] # "pushed"

\* the crawler hands a request to requestHandler: the entry check and
\* waterfall step 1, then either the call of fetchSearchAPI or the save loop
StartRequest(w) ==
    /\ pc[Main] = "run"
    /\ NoMicrotaskPending
    /\ pc[w] = "idle"
    /\ \A v \in Workers : v < w => pc[v] # "idle"
    /\ \E req \in queue :
         LET W0 == [World(w) EXCEPT !.queue = @ \ {req},
                                    !.loc = [NoLoc EXCEPT !.url = req.url,
                                                          !.retries = req.retries,
                                                          !.label = req.label,
                                                          !.listingProduct = req.listingProduct]]
             page == PageOf(req.url)
             windowAsos == extractWindowAsos(page.scripts)
             products == getProductsFromWindow(windowAsos.result)
             W1 == [W0 EXCEPT !.vmRuns = @ + windowAsos.runs,
                              !.loc.windowAsos = windowAsos.result]
         IN IF EntryCheck(shouldStop, saved) THEN Commit(w, Complete(W0))
            ELSE IF req.label = "DETAIL" THEN Commit(w, HandleDetail(W0))
            ELSE IF Len(products) > 0
                 THEN Commit(w, FromListing(Extracted(
                          [W1 EXCEPT !.loc.products = products,
                                     !.loc.method = "window.asos",
                                     !.loc.pagination = extractPagination(windowAsos.result),
                                     !.extractionStats.windowAsos = @ + 1])))
            ELSE Commit(w, [W1 EXCEPT !.pc = "api",
                                      !.apiCalls = Append(@, [q |-> req.url.q,
                                                              page |-> UrlPage(req.url) - 1])])

\* fetchSearchAPI has answered: the rest of the waterfall, then the save loop
ApiReturn(w) ==
    /\ pc[Main] # "exited"
    /\ NoMicrotaskPending
    /\ pc[w] = "api"
    /\ LET page == PageOf(h[w].url)
       IN Commit(w, FromListing(Extracted(
              StepDom(StepNextData(StepApi(World(w), page), page), page))))

\* `await crawlerInstance.addRequests(...)` of a product page has resolved
ResumeAfterAdd(w) ==
    /\ NoMicrotaskPending
    /\ pc[Main] # "exited"
    /\ pc[w] = "adding"
    /\ Commit(w, EnqueueLoop(World(w), h[w].i + 1))

\* `await pushBufferedData()` returns without a flush
ResumeAfterPush(w) ==
    /\ pc[Main] # "exited"
    /\ pc[w] = "pushed"
    /\ Commit(w, AfterPush(World(w)))

\* Dataset.pushData(productBuffer) reads the array it was given
DatasetPushData(p) ==
    /\ NoMicrotaskPending
    /\ pc[p] = "pushData"
    /\ pc[Main] # "exited"
    /\ persisted' = Append(persisted, productBuffer)
    /\ pc' = [pc EXCEPT ![p] = "flushed"]
    /\ UNCHANGED <<inputs, call, seenIds, saved, shouldStop, extractionStats, productBuffer,
                   queue, known, addLog, apiCalls, vmRuns, extracted, savedLog, timeouts, h>>

\* Dataset.pushData has resolved: productBuffer.length = 0, then the caller
\* goes on (a handler with its loop, the main script with Actor.exit)
ResumeAfterFlush(p) ==
    /\ NoMicrotaskPending
    /\ pc[p] = "flushed"
    /\ pc[Main] # "exited"
    /\ IF p = Main
       THEN /\ productBuffer' = <<>>
            /\ pc' = [pc EXCEPT ![Main] = "exited"]
            /\ UNCHANGED <<inputs, call, seenIds, saved, shouldStop, extractionStats, persisted,
                           queue, known, addLog, apiCalls, vmRuns, extracted, savedLog,
                           timeouts, h>>
       ELSE Commit(p, AfterPush([World(p) EXCEPT !.productBuffer = <<>>]))

\* requestHandlerTimeoutSecs elapses while the handler awaits I/O: the
\* crawler gives the execution up and reclaims the request; the handler's
\* promise goes on running
Timeout(w) ==
    /\ NoMicrotaskPending
    /\ pc[Main] = "run"
    /\ pc[w] \in {"api", "adding", "pushData", "flushed"}
    /\ ~h[w].zombie
    /\ timeouts < MaxTimeouts
    /\ timeouts' = timeouts + 1
    /\ h' = [h EXCEPT ![w].zombie = TRUE]
    /\ queue' = IF h[w].retries < maxRequestRetries
                THEN queue \cup {Req(h[w].url, h[w].retries + 1, h[w].label,
                                     h[w].listingProduct)}
                ELSE queue
    /\ UNCHANGED <<inputs, call, seenIds, saved, shouldStop, extractionStats, productBuffer,
                   persisted, known, addLog, apiCalls, vmRuns, extracted, savedLog, pc>>

\* crawler.run() resolves (no pending request, no execution it still waits
\* for); then `await pushBufferedData(true)` up to its await, or Actor.exit
CrawlFinished ==
    /\ NoMicrotaskPending
    /\ pc[Main] = "run"
    /\ queue = {}
    /\ \A w \in Workers : pc[w] = "idle" \/ h[w].zombie
    /\ pc' = [pc EXCEPT ![Main] = IF pushBufferedData(productBuffer, TRUE)
                                  THEN "pushData" ELSE "exited"]
    /\ UNCHANGED <<inputs, call, seenIds, saved, shouldStop, extractionStats, productBuffer,
                   persisted, queue, known, addLog, apiCalls, vmRuns, extracted, savedLog,
                   timeouts, h>>

\* buildSearchUrl(1)
buildSearchUrl(page) == Url("men", page)

Start(a, s, d, rw, lo, hi) ==
    /\ actor = a
    /\ site = s
    /\ detail = d
    /\ resultsWanted = rw
    /\ minPrice = lo
    /\ maxPrice = hi
    /\ seenIds = {}
    /\ saved = 0
    /\ shouldStop = FALSE
    /\ extractionStats = [windowAsos |-> 0, restApi |-> 0, nextData |-> 0, domParsing |-> 0]
    /\ productBuffer = <<>>
    /\ persisted = <<>>
    /\ queue = {Req(buildSearchUrl(1), 0, "LISTING", NullEntry)}
    /\ known = {buildSearchUrl(1)}
    /\ addLog = <<>>
    /\ apiCalls = <<>>
    /\ vmRuns = 0
    /\ extracted = {}
    /\ savedLog = <<>>
    /\ timeouts = 0
    /\ pc = [p \in {Main} \cup Workers |-> IF p = Main THEN "run" ELSE "idle"]
    /\ h = [w \in Workers |-> NoLoc]

\* =====================================================================
\* Sites and inputs of the runs
\* =====================================================================
\* a well-formed product: id k, its own url, price 10 * k
Good(k) == Prod(k, "item", 10 + k, 10 * k, NoNum)
Untitled(k) == Prod(k, "", 10 + k, 10 * k, NoNum)
Anonymous == Prod(NoId, "item", 19, 10, NoNum)
\* a product whose price object carries neither a value nor a text
Unpriced(k) == Prod(k, "item", 10 + k, NoNum, NoNum)

\* a <script data-id="window.asos..."> block holding `payload` as JSON
DataJson(payload) ==
    Script(TRUE, Text("json", payload), FALSE, NoText, "throws", NullPayload)

\* a listing served with the catalog payload; one served by the API only
PayloadPage(products) ==
    MkPage(<<DataJson(PayloadAt(1, products, NoPagBlock))>>, NoNextData, <<>>, ApiError)
ApiPage(products) == MkPage(<<>>, NoNextData, <<>>, ApiOk(products, Len(products)))

RunProducts ==
    {Good(1), Good(2), Good(3), Untitled(1), Anonymous, BadType(Good(2)), NullEntry}

SeqsUpTo(S, n) == UNION {[1..k -> S] : k \in 0..n}

FirstListings == SeqsUpTo(RunProducts, MaxItems) \ {<<>>}
LaterListings == {<<>>, <<Good(1)>>, <<Good(2), Good(3)>>}

\* page 1 comes with the payload, every later page from the API
RunSites ==
    {<<PayloadPage(first)>> \o [k \in 1..(MaxPage - 1) |-> ApiPage(later)] :
        first \in FirstListings, later \in LaterListings}

\* ten products on page 1, one more on page 2; the default results_wanted
BigSite ==
    <<PayloadPage([k \in 1..BATCH_SIZE |-> Good(k)]), PayloadPage(<<Good(BATCH_SIZE + 1)>>)>>

\* minPrice and maxPrice: both absent, or a window that holds Good(2) only
RunBounds == {<<NoNum, NoNum>>, <<15, 25>>}

Init ==
    /\ call = NoCall
    /\ \/ \E s \in RunSites, rw \in 1..MaxWanted, b \in RunBounds :
             Start("listing-only", s, "none", rw, b[1], b[2])
       \/ Start("listing-only", BigSite, "none", defaultResultsWanted, NoNum, NoNum)

Next ==
    \/ \E w \in Workers : StartRequest(w)
    \/ \E w \in Workers : ApiReturn(w)
    \/ \E w \in Workers : ResumeAfterPush(w)
    \/ \E p \in {Main} \cup Workers : DatasetPushData(p)
    \/ \E p \in {Main} \cup Workers : ResumeAfterFlush(p)
    \/ \E w \in Workers : Timeout(w)
    \/ CrawlFinished

Spec == Init /\ [][Next]_vars

\* ---------------------------------------------------------------------
\* Runs of either actor
\* ---------------------------------------------------------------------
BothListings == {<<Good(1)>>, <<Good(1), Good(2)>>, <<Untitled(3), Good(1)>>}

BothSites ==
    {<<PayloadPage(first)>> \o [k \in 1..(MaxPage - 1) |-> ApiPage(later)] :
        first \in BothListings, later \in {<<>>, <<Good(2), Good(3)>>}}

InitBoth ==
    /\ call = NoCall
    /\ \/ \E s \in BothSites, rw \in 1..(MaxWanted - 1) :
             Start("listing-only", s, "none", rw, NoNum, NoNum)
       \/ \E s \in BothSites, d \in {"none", "pdp", "blank"}, rw \in 1..(MaxWanted - 1) :
             Start("two-hop", s, d, rw, NoNum, NoNum)

NextBoth ==
    \/ \E w \in Workers : StartRequest(w)
    \/ \E w \in Workers : ApiReturn(w)
    \/ \E w \in Workers : ResumeAfterAdd(w)
    \/ \E w \in Workers : ResumeAfterPush(w)
    \/ \E p \in {Main} \cup Workers : DatasetPushData(p)
    \/ \E p \in {Main} \cup Workers : ResumeAfterFlush(p)
    \/ \E w \in Workers : Timeout(w)
    \/ CrawlFinished

SpecBoth == InitBoth /\ [][NextBoth]_vars

\* ---------------------------------------------------------------------
\* Runs of the two-hop actor whose product pages report their own id
\* ---------------------------------------------------------------------
\* two listing entries with different URLs: with different listing ids, or
\* the first without a listing id
DetailListings == {<<Good(1), Good(2)>>, <<Anonymous, Good(1)>>}

DetailSites ==
    {<<PayloadPage(first)>> \o [k \in 1..(MaxPage - 1) |-> ApiPage(<<Good(3)>>)] :
        first \in DetailListings}

InitDetail ==
    /\ call = NoCall
    /\ \E s \in DetailSites, d \in {"pdp", "shared"}, rw \in (MaxWanted - 1)..MaxWanted :
          Start("two-hop", s, d, rw, NoNum, NoNum)

SpecDetail == InitDetail /\ [][NextBoth]_vars

\* ---------------------------------------------------------------------
\* Runs of the listing-only actor over one listing, of every markup
\* ---------------------------------------------------------------------
\* an object with an array at path i and another at path j
TwoPaths(i, a, j, b) ==
    [ok |-> TRUE,
     paths |-> [n \in 1..Len(PathNames) |->
                   IF n = i THEN Arr(a) ELSE IF n = j THEN Arr(b) ELSE Absent],
     pagination |-> NoPagBlock]

\* a data-id block whose JSON text has its quotes as &quot;
DataEscaped(payload) ==
    Script(TRUE, Text("escaped", payload), FALSE, NoText, "throws", NullPayload)
\* a data-id block whose body is no JSON, also after the &quot; cleanup
DataInvalid ==
    Script(TRUE, Text("invalid", NullPayload), FALSE, NoText, "throws", NullPayload)
\* <script>window.asos = { ... };</script> with nested objects or literal
\* syntax: the captured text is no JSON, running the script leaves `payload`
InlineLiteral(payload) ==
    Script(FALSE, Text("invalid", NullPayload), TRUE, Text("invalid", NullPayload),
           "ok", payload)
\* <script>window.asos = {};</script>
InlineEmpty ==
    Script(FALSE, Text("invalid", NullPayload), TRUE, Text("json", EmptyObject),
           "ok", EmptyObject)
\* a script that mentions window.asos and raises when run
InlineThrows ==
    Script(FALSE, Text("invalid", NullPayload), TRUE, NoText, "throws", NullPayload)
\* a script that has nothing to do with the catalog
Unrelated ==
    Script(FALSE, Text("invalid", NullPayload), FALSE, NoText, "ok", NullPayload)

ExtractPayloads ==
    {PayloadAt(1, <<Good(1)>>, NoPagBlock),
     PayloadAt(Len(PathNames), <<Good(1), Good(2)>>, NoPagBlock),
     PayloadAt(1, <<Unpriced(3)>>, NoPagBlock),
     TwoPaths(1, <<>>, 3, <<Good(1)>>),
     TwoPaths(2, <<Good(2)>>, 3, <<Good(1)>>)}

ExtractScripts ==
    {DataJson(v) : v \in ExtractPayloads} \cup {DataEscaped(PayloadAt(1, <<Good(1)>>, NoPagBlock))}
    \cup {InlineLiteral(v) : v \in ExtractPayloads}
    \cup {InlineEmpty, InlineThrows, Unrelated, DataInvalid}

TilePrd(k) == Tile("prd", k, 20 + k, "tile", 10)
TileGrp(k) == Tile("grp", k, 30 + k, "tile", 10)
TileOther == Tile("other", NoId, 29, "tile", 10)
TileNoLink == Tile("none", NoId, NoUrl, "tile", 10)

ExtractTiles == SeqsUpTo({TilePrd(5), TileGrp(6), TileOther, TileNoLink}, MaxItems)

ExtractApis ==
    {ApiError, ApiNoBody}
    \cup {ApiOk(products, Len(products)) :
             products \in SeqsUpTo({Good(1), Good(2), NullEntry, BadType(Good(3))}, MaxItems)}

NextDataJson(payload) == [form |-> "json", value |-> payload]
NextDataInvalid == [form |-> "invalid", value |-> NullPayload]

\* the markup varies; or, under markup without scripts, the tiles vary
\* with the API failing, or the API's answer varies
ExtractPages ==
    {MkPage(scripts, NoNextData, tiles, api) :
        scripts \in SeqsUpTo(ExtractScripts, 2) \ {<<>>},
        tiles \in {<<>>, <<TileOther>>},
        api \in {ApiError, ApiOk(<<Good(3)>>, 1)}}
    \cup {MkPage(<<>>, nextData, tiles, api) :
        nextData \in {NoNextData, NextDataInvalid,
                      NextDataJson(PayloadAt(1, <<Good(2)>>, NoPagBlock))},
        tiles \in ExtractTiles,
        api \in {ApiError, ApiNoBody, ApiOk(<<>>, 0)}}
    \cup {MkPage(<<>>, nextData, tiles, api) :
        nextData \in {NoNextData, NextDataInvalid},
        tiles \in {<<>>, <<TilePrd(5), TileNoLink>>},
        api \in ExtractApis}

InitExtract ==
    /\ call = NoCall
    /\ \E page \in ExtractPages :
          Start("listing-only", <<page>>, "none", MaxWanted, NoNum, NoNum)

SpecExtract == InitExtract /\ [][Next]_vars

\* ---------------------------------------------------------------------
\* Runs of the listing-only actor over listings served as tiles only
\* ---------------------------------------------------------------------
\* a tile whose link holds no product or group id; k tells the URLs apart
TileAt(k) == Tile("other", NoId, 50 + k, "tile", 10)

DomPage(tiles) == MkPage(<<>>, NoNextData, tiles, ApiError)

\* every page holds one tile without id, each with a URL of its own; the
\* first page may hold a tile with an id before it
DomSites ==
    {<<DomPage(first \o <<TileAt(1)>>)>> \o [k \in 1..(MaxPage - 1) |-> DomPage(<<TileAt(k + 1)>>)] :
        first \in {<<>>, <<TilePrd(5)>>}}

InitDom ==
    /\ call = NoCall
    /\ \E s \in DomSites, rw \in 1..(MaxWanted + 1) :
          Start("listing-only", s, "none", rw, NoNum, NoNum)

SpecDom == InitDom /\ [][Next]_vars

\* ---------------------------------------------------------------------
\* Runs of the listing-only actor over listings with a pagination block
\* ---------------------------------------------------------------------
\* a listing whose payload holds one product and a pagination block that
\* reports page b (NoNum: the payload has no pagination block)
PagedPage(b) ==
    MkPage(<<DataJson(PayloadAt(1, <<Good(1)>>,
                                IF b = NoNum THEN NoPagBlock ELSE PagBlock(b, NoNum)))>>,
           NoNextData, <<>>, ApiError)

\* MaxPage + 1 listings with products (every later page has none); the
\* blocks report whatever page
PagedSites == [1..(MaxPage + 1) -> {PagedPage(b) : b \in {NoNum} \cup 1..MaxPage}]

\* the target is out of reach: every product is a duplicate of the first,
\* or is rejected by the price window
InitPaged ==
    /\ call = NoCall
    /\ \E s \in PagedSites, b \in RunBounds :
          Start("listing-only", s, "none", MaxWanted, b[1], b[2])

SpecPaged == InitPaged /\ [][Next]_vars


\* ---------------------------------------------------------------------
\* Calls of the utility functions, one call per behaviour
\* ---------------------------------------------------------------------
runVars == <<inputs, seenIds, saved, shouldStop, extractionStats, productBuffer, persisted,
             queue, known, addLog, apiCalls, vmRuns, extracted, savedLog, timeouts, pc, h>>

PageInfos ==
    {NoPagination}
    \cup {PageInfo(page, limit, totalPages, NoNum) :
             page \in 0..(MaxPage + 1), totalPages \in {NoNum} \cup 0..(MaxPage + 1)}

NextPageUrlCalls ==
    {[fn |-> "nextPageUrl", done |-> FALSE, currentUrl |-> Url("men", page),
      pageInfo |-> pageInfo, productsOnPage |-> n, out |-> NullUrl] :
        page \in {NoNum} \cup 1..(MaxPage + 1), pageInfo \in PageInfos, n \in 0..MaxItems}

\* price objects: the value and the text each known or not
PriceObjects ==
    {[value |-> v, text |-> t, previous |-> NoNum, marked |-> FALSE] :
        v \in {NoNum, 0, 10, 20, 30}, t \in {NoNum, 20}}

PriceBounds == {NoNum, 0, 10, 20}

PricePassesCalls ==
    {[fn |-> "pricePasses", done |-> FALSE, priceObj |-> price, min |-> lo, max |-> hi,
      out |-> FALSE] : price \in PriceObjects, lo \in PriceBounds, hi \in PriceBounds}

\* An image reference, by the parts of the string that normalizeImageUrl
\* looks at: surrounding white space, what it starts with ("//", "http://",
\* "https://", or "" for a path), whether the media base path stands before
\* the path, whether the path ends in -<digits>-<letters>, whether it ends
\* in an image extension, and the text after the first "?" ("": none)
ImageRef(blank, lead, suffix, ext, query) ==
    [blank |-> blank, lead |-> lead, base |-> FALSE, suffix |-> suffix, ext |-> ext,
     query |-> query]

ImageRefs ==
    {ImageRef(blank, lead, suffix, ext, query) :
        blank \in BOOLEAN, lead \in {"", "//", "http://", "https://"},
        suffix \in BOOLEAN, ext \in BOOLEAN, query \in {"", "wid=400", "$XXL$"}}

\* trim, "//" to "https://", a path behind the media base path
Absolute(url) ==
    LET clean == [url EXCEPT !.blank = FALSE] IN
    IF clean.lead = "//" THEN [clean EXCEPT !.lead = "https://"]
    ELSE IF clean.lead = "" THEN [clean EXCEPT !.lead = "https://", !.base = TRUE]
    ELSE clean

\* a mutation of normalizeImageUrl: the query string of the input is kept
normalizeImageUrlKeepQuery(url) ==
    LET a == Absolute(url)
        b == IF a.ext THEN a ELSE [a EXCEPT !.suffix = TRUE, !.ext = TRUE]
    IN IF b.query = "" THEN [b EXCEPT !.query = "$XXL$"] ELSE b

\* normalizeImageUrl(url) of main.js, for a non-empty url: the query is cut
\* off, a size suffix and the extension are added when the extension is
\* missing, then "?$XXL$" is appended
normalizeImageUrl(url) ==
    LET a == [Absolute(url) EXCEPT !.query = ""]
        b == IF a.ext THEN a ELSE [a EXCEPT !.suffix = TRUE, !.ext = TRUE]
    IN IF b.query = "" THEN [b EXCEPT !.query = "$XXL$"] ELSE b

\* normalizeImageUrl(url) of the two-hop actor: the query is cut off
normalizeImageUrlDetail(url) == [Absolute(url) EXCEPT !.query = ""]

NormalizeImageUrlCalls ==
    {[fn |-> "normalizeImageUrl", done |-> FALSE, actor |-> a, url |-> url,
      out |-> url, again |-> url] : a \in {"listing-only", "two-hop"}, url \in ImageRefs}

\* one call, and a second call on the result of the first
CallNormalizeImageUrl ==
    /\ call.fn = "normalizeImageUrl" /\ ~call.done
    /\ call' = IF call.actor = "listing-only"
               THEN [call EXCEPT !.done = TRUE,
                                 !.out = normalizeImageUrl(call.url),
                                 !.again = normalizeImageUrl(normalizeImageUrl(call.url))]
               ELSE [call EXCEPT !.done = TRUE,
                                 !.out = normalizeImageUrlDetail(call.url),
                                 !.again = normalizeImageUrlDetail(normalizeImageUrlDetail(call.url))]
    /\ UNCHANGED runVars

\* raw products: the current and the previous price each absent, zero or
\* positive, the marked-down flag set or not
RawProducts ==
    {[Prod(1, "item", 11, value, previous) EXCEPT !.price.marked = marked] :
        value \in {NoNum, 0, 10, 20}, previous \in {NoNum, 0, 10, 20}, marked \in BOOLEAN}

TransformCalls ==
    {[fn |-> "transformToFinalFormat", done |-> FALSE, p |-> p,
      out |-> transformToFinalFormat(NullEntry)] : p \in RawProducts}

CallTransform ==
    /\ call.fn = "transformToFinalFormat" /\ ~call.done
    /\ call' = [call EXCEPT !.done = TRUE, !.out = transformToFinalFormat(call.p)]
    /\ UNCHANGED runVars

CallPricePasses ==
    /\ call.fn = "pricePasses" /\ ~call.done
    /\ call' = [call EXCEPT !.done = TRUE,
                            !.out = pricePasses(call.priceObj, call.min, call.max)]
    /\ UNCHANGED runVars

CallNextPageUrl ==
    /\ call.fn = "nextPageUrl" /\ ~call.done
    /\ call' = [call EXCEPT !.done = TRUE,
                            !.out = nextPageUrl(call.currentUrl, call.pageInfo,
                                                call.productsOnPage)]
    /\ UNCHANGED runVars

InitPure ==
    /\ Start("listing-only", <<EmptyPage>>, "none", MaxWanted, NoNum, NoNum)
    /\ call \in NextPageUrlCalls \cup PricePassesCalls \cup TransformCalls
                \cup NormalizeImageUrlCalls

NextPure ==
    \/ CallNextPageUrl
    \/ CallPricePasses
    \/ CallTransform
    \/ CallNormalizeImageUrl

SpecPure == InitPure /\ [][NextPure]_vars

\* =====================================================================
\* Properties of a run
\* =====================================================================
Range(s) == {s[k] : k \in 1..Len(s)}

RECURSIVE Flatten(_)
Flatten(batches) ==
    IF batches = <<>> THEN <<>> ELSE Head(batches) \o Flatten(Tail(batches))

Count(x, s) == Cardinality({k \in 1..Len(s) : s[k] = x})

Ids(products) == [k \in 1..Len(products) |-> ProductId(products[k])]

RecordIds(records) == [k \in 1..Len(records) |-> records[k].product_id]

\* a product the handler is meant to save: well-formed, with id, title and
\* url, and within the price bounds
Eligible(p) ==
    /\ p.kind = "ok"
    /\ p.id # NoId /\ p.name # "" /\ p.url # NoUrl
    /\ pricePasses(p.price, minPrice, maxPrice)

AllIdle == \A w \in Workers : pc[w] = "idle"

\* C1: in every reachable state of a run of either actor, saved never
\* exceeds resultsWanted.
C1_SavedWithinTarget == saved <= resultsWanted

\* C1 witness: the listing-then-detail actor has reached the target while
\* a product page it enqueued earlier is still waiting in the queue.
C1_Witness ==
    /\ actor = "two-hop"
    /\ saved = resultsWanted
    /\ \E req \in queue : req.label = "DETAIL"

\* C2: across the whole run of the listing-only handler no two records
\* pushed to the output buffer carry the same product_id.
C2_NoDuplicateIds ==
    \A i, j \in 1..Len(savedLog) : i # j => savedLog[i] # savedLog[j]

\* C2 witness: the run is over, two different listing pages both held a
\* product with an id that was saved (the later one was dropped).
C2_Witness ==
    /\ pc[Main] = "exited"
    /\ \E e1, e2 \in extracted :
         /\ e1.url # e2.url
         /\ \E i \in 1..Len(e1.products), j \in 1..Len(e2.products) :
              /\ ProductId(e1.products[i]) = ProductId(e2.products[j])
              /\ Eligible(e1.products[i]) /\ Eligible(e2.products[j])
              /\ ProductId(e1.products[i]) \in Range(savedLog)

\* C3 (as claimed): when the run has completed, every record pushed to the
\* output buffer was handed to Dataset.pushData exactly once.
C3_PersistedExactlyOnce ==
    pc[Main] = "exited" =>
        \A id \in Range(savedLog) : Count(id, RecordIds(Flatten(persisted))) = 1

\* the first listing holds n >= resultsWanted products, all eligible, with
\* pairwise distinct ids, and no handler execution was given up
C4_Case ==
    LET products == getProductsFromWindow(extractWindowAsos(site[1].scripts).result) IN
    /\ timeouts = 0
    /\ Len(products) >= resultsWanted
    /\ \A k \in 1..Len(products) : Eligible(products[k])
    /\ \A i, j \in 1..Len(products) : i # j => ProductId(products[i]) # ProductId(products[j])

\* C4: handling one such listing from the fresh state saves exactly the
\* first resultsWanted products, in listing order, and requests no next page.
C4_FirstKSaved ==
    LET products == getProductsFromWindow(extractWindowAsos(site[1].scripts).result) IN
    C4_Case =>
        /\ addLog = <<>>
        /\ Len(savedLog) <= resultsWanted
        /\ savedLog = SubSeq(Ids(products), 1, Len(savedLog))
        /\ (AllIdle /\ extracted # {} => Len(savedLog) = resultsWanted)

\* C4 witness: such a listing with more products than wanted was handled.
C4_Witness ==
    LET products == getProductsFromWindow(extractWindowAsos(site[1].scripts).result) IN
    /\ C4_Case /\ AllIdle /\ extracted # {}
    /\ Len(products) > resultsWanted
    /\ saved = resultsWanted

\* C5: once saved has reached resultsWanted, no step saves a further
\* record or hands a further URL to addRequests.
C5_NothingAfterTarget ==
    [][saved >= resultsWanted => (savedLog' = savedLog /\ addLog' = addLog)]_vars

\* C5 witness: the target is reached while another handler execution that
\* passed its entry check earlier is still awaiting the API.
C5_Witness ==
    /\ saved >= resultsWanted
    /\ \E w \in Workers : pc[w] = "api"

\* the ids of the eligible products of a listing
EligibleIds(products) ==
    {ProductId(products[k]) : k \in {j \in 1..Len(products) : Eligible(products[j])}}

\* the handling of the listing at `url` is over, and ran undisturbed
Handled(e) ==
    /\ timeouts = 0
    /\ \A w \in Workers : h[w].url # e.url
    /\ \A k \in 1..Len(e.products) : e.products[k].kind = "ok"

\* C6 (as claimed), for the first listing of a run (nothing seen, nothing
\* saved, needed = resultsWanted): once it is handled, saved equals
\* resultsWanted if it held at least that many eligible products with
\* distinct ids, wherever they stand in the listing; otherwise the next
\* page was enqueued (the payload of these listings carries no page count).
C6_NeverShort ==
    \A e \in extracted :
        (e.url = buildSearchUrl(1) /\ Handled(e)) =>
            IF Cardinality(EligibleIds(e.products)) >= resultsWanted
            THEN saved = resultsWanted
            ELSE Len(addLog) > 0

\* =====================================================================
\* Properties of the extraction waterfall
\* =====================================================================
\* the primary payload of the first listing, and its products
Primary == extractWindowAsos(site[1].scripts).result

HasProducts(data) ==
    data.ok /\ \E i \in 1..Len(PathNames) : data.paths[i].present /\ Len(data.paths[i].items) > 0

\* the first non-empty products array of a payload, in path order
FirstNonEmpty(data) ==
    LET first == CHOOSE i \in 1..Len(PathNames) :
                     /\ data.paths[i].present /\ Len(data.paths[i].items) > 0
                     /\ \A j \in 1..(i - 1) :
                            ~(data.paths[j].present /\ Len(data.paths[j].items) > 0)
    IN data.paths[first].items

\* the first listing carries neither payload; `api` is what the API answers
NoPayload ==
    /\ ~HasProducts(Primary)
    /\ ~HasProducts(extractNextData(site[1].nextData))

FirstListing(e) == e.url = buildSearchUrl(1)

\* C7 (as claimed): no script text of a page is ever executed.
C7_NoScriptExecution == vmRuns = 0

\* C8 (as claimed): when the primary payload of the listing holds a
\* non-empty products array at some known path, the API is never called
\* for the listing and the products used are that array, by the
\* primary-payload method.
C8_PrimaryPayloadUsed ==
    HasProducts(Primary) =>
        /\ \A k \in 1..Len(apiCalls) : apiCalls[k].page # 0
        /\ \A e \in extracted :
               FirstListing(e) => /\ e.method = "window.asos"
                                  /\ e.products = FirstNonEmpty(Primary)

\* the entries of an API answer that are objects
NonNull(raw) == SelectSeq(raw, LAMBDA p : p.kind # "null")

ApiFails ==
    \/ site[1].api.outcome # "ok"
    \/ Len(site[1].api.products) = 0

\* no handler execution has raised
NeverRaised ==
    /\ \A req \in queue : req.retries = 0
    /\ \A w \in Workers : h[w].retries = 0

\* the tiles of a listing that have a link with an href
Linked(tiles) == SelectSeq(tiles, LAMBDA t : t.href # "none")

\* the tiles whose href holds /prd/<id> or /grp/<id>
IdLinked(tiles) == SelectSeq(tiles, LAMBDA t : t.href \in {"prd", "grp"})

StartedUrls ==
    {e.url : e \in extracted} \cup {h[w].url : w \in {v \in Workers : pc[v] # "idle"}}

\* the payloads a handler looks for products in: the primary and the
\* secondary payload of its page
PayloadsOf(url) ==
    {extractWindowAsos(PageOf(url).scripts).result, extractNextData(PageOf(url).nextData)}

\* C11 (as claimed): for every payload, getProductsFromWindow returns the
\* first non-empty array in path order, and the empty sequence only when
\* every path is empty or absent.
C11_FirstNonEmptyArray ==
    \A url \in StartedUrls : \A data \in PayloadsOf(url) :
        getProductsFromWindow(data) =
            IF HasProducts(data) THEN FirstNonEmpty(data) ELSE <<>>

\* the page nextPageUrl counts from: the pagination info's page when it has
\* one, the page parameter of the URL (1 if none) otherwise
CurrentPage(url, info) ==
    IF info.present /\ info.page # 0 THEN info.page ELSE UrlPage(url)

\* the pagination info knows the number of pages (0 stands for unknown)
KnowsTotal(info) == info.present /\ info.totalPages # NoNum /\ info.totalPages # 0

\* C12: nextPageUrl returns null exactly when the page yielded no product
\* or the pagination info knows totalPages and the current page has reached
\* it; otherwise it returns the URL with page = current page + 1.
C12_NextPageUrl ==
    (call.fn = "nextPageUrl" /\ call.done) =>
        LET cur == CurrentPage(call.currentUrl, call.pageInfo)
            last == KnowsTotal(call.pageInfo) /\ cur >= call.pageInfo.totalPages
        IN IF call.productsOnPage = 0 \/ last
           THEN call.out = NullUrl
           ELSE call.out = Url(call.currentUrl.q, cur + 1)

\* C12 witness: with products on the page, the last page of a known total
\* (page 3 of 3) gave null.
C12_Witness ==
    /\ call.fn = "nextPageUrl" /\ call.done
    /\ call.productsOnPage > 0
    /\ call.pageInfo.present /\ call.pageInfo.page = MaxPage + 1
    /\ call.pageInfo.totalPages = MaxPage + 1
    /\ call.out = NullUrl

\* the pagination the API returned for the listing at `url`
ApiPagination(url) == fetchSearchAPI(PageOf(url).api, UrlPage(url) - 1).pagination

\* C13 (as claimed): when the products of a listing came from the API and
\* the API's pagination says the page has reached totalPages, no next page
\* is enqueued for that listing.
C13_ApiPaginationDecides ==
    \A e \in extracted :
        (/\ e.method = "REST API"
         /\ ApiPagination(e.url).present
         /\ ApiPagination(e.url).totalPages > 0
         /\ ApiPagination(e.url).page >= ApiPagination(e.url).totalPages)
        => \A k \in 1..Len(addLog) : addLog[k] # Url(e.url.q, UrlPage(e.url) + 1)

\* the price a price object resolves to: its numeric value, else the
\* number of its text, else unknown (NoNum)
Resolved(price) == IF price.value # NoNum THEN price.value ELSE price.text

\* C14: a price that cannot be resolved passes whatever the bounds; a known
\* price fails exactly when min is set and price < min, or max is set and
\* price > max; with no bound set every price passes.
C14_PricePasses ==
    (call.fn = "pricePasses" /\ call.done) =>
        LET v == Resolved(call.priceObj) IN
        /\ v = NoNum => call.out
        /\ v # NoNum => (call.out <=> ~(\/ (call.min # NoNum /\ v < call.min)
                                        \/ (call.max # NoNum /\ v > call.max)))
        /\ (call.min = NoNum /\ call.max = NoNum) => call.out

\* C14 witness: a price that cannot be resolved passed with both bounds set.
C14_Witness ==
    /\ call.fn = "pricePasses" /\ call.done
    /\ Resolved(call.priceObj) = NoNum
    /\ call.min # NoNum /\ call.max # NoNum
    /\ call.out

\* the records saved so far, persisted or still in the buffer
SavedRecords == Range(Flatten(persisted)) \cup Range(productBuffer)

\* C15: every saved record with a known price has price >= minPrice when
\* minPrice is set and price <= maxPrice when maxPrice is set.
C15_SavedWithinBounds ==
    \A r \in SavedRecords :
        r.price # NoNum =>
            /\ minPrice # NoNum => r.price >= minPrice
            /\ maxPrice # NoNum => r.price <= maxPrice

\* C15 witness: with both bounds set a record was saved from a listing
\* that also held a product priced outside the bounds.
C15_Witness ==
    /\ minPrice # NoNum /\ maxPrice # NoNum
    /\ \E e \in extracted :
          /\ \E k \in 1..Len(e.products) :
                /\ e.products[k].kind = "ok"
                /\ ~pricePasses(e.products[k].price, minPrice, maxPrice)
          /\ \E r \in SavedRecords, k \in 1..Len(e.products) :
                r.price # NoNum /\ r.product_id = ProductId(e.products[k])

\* all four strategies yield no product for the listing at `url`
ZeroProducts(url) ==
    LET page == PageOf(url)
        raw == fetchSearchAPI(page.api, UrlPage(url) - 1).products
    IN /\ getProductsFromWindow(extractWindowAsos(page.scripts).result) = <<>>
       /\ \/ \E k \in 1..Len(raw) : NormalizeRaises(raw[k])
          \/ \A k \in 1..Len(raw) : normalizeApiProduct(raw[k]).kind = "null"
       /\ getProductsFromWindow(extractNextData(page.nextData)) = <<>>
       /\ parseDomProducts(page.tiles) = <<>>

\* the URL a step of handler w works on (a step of w moves pc[w])
StepUrl(w) == IF pc[w] = "idle" THEN h'[w].url ELSE h[w].url

\* C16: a step of a handler on a listing for which all four strategies
\* yield nothing leaves seenIds, saved, shouldStop and the output buffer as
\* they are, enqueues nothing, does not raise (the request is not queued
\* again) and leaves the other pending requests in the queue.
C16_ZeroProductsNoEffect ==
    [][\A w \in Workers :
          (pc'[w] # pc[w] /\ ZeroProducts(StepUrl(w))) =>
              /\ seenIds' = seenIds /\ saved' = saved /\ shouldStop' = shouldStop
              /\ productBuffer' = productBuffer /\ addLog' = addLog
              /\ queue' \subseteq queue
              /\ \A req \in queue : req.url # StepUrl(w) => req \in queue']_vars

\* C16 witness: the first listing gave nothing by any strategy (the API
\* answered with entries, none of them usable) and its handler is done.
C16_Witness ==
    /\ ZeroProducts(buildSearchUrl(1))
    /\ Len(site[1].api.products) > 0
    /\ \E e \in extracted : FirstListing(e) /\ Len(e.products) = 0
    /\ AllIdle

\* an entry the save loop cannot turn into a record: transforming it
\* raises, or it lacks id, title or URL
Malformed(p) ==
    \/ TransformRaises(p)
    \/ p.kind = "ok" /\ (p.id = NoId \/ p.name = "" \/ p.url = NoUrl)

\* C17 (as claimed), for a first listing that holds a malformed entry (and
\* no null entry), that no timeout disturbs and of which the slice cuts
\* nothing off: its handler never fails (the request is never taken up a
\* second time), and once it is handled every eligible product of the
\* listing is saved and, short of the target, the next page is enqueued.
C17_OnlyMalformedSkipped ==
    \A e \in extracted :
        ( /\ timeouts = 0
          /\ e.url = buildSearchUrl(1)
          /\ Len(e.products) <= resultsWanted
          /\ \A k \in 1..Len(e.products) : e.products[k].kind # "null"
          /\ \E k \in 1..Len(e.products) : Malformed(e.products[k]) ) =>
            /\ \A req \in queue : req.url = e.url => req.retries = 0
            /\ \A w \in Workers : h[w].url = e.url => h[w].retries = 0
            /\ (\A w \in Workers : h[w].url # e.url) =>
                  /\ EligibleIds(e.products) \subseteq Range(savedLog)
                  /\ saved < resultsWanted => Len(addLog) > 0

\* C18 (as claimed): for a raw product with a numeric current price, zero
\* included, transformToFinalFormat sets is_sale exactly when the
\* marked-down flag is set or a previous price exists and is greater than
\* the current price.
C18_IsSaleIff ==
    (call.fn = "transformToFinalFormat" /\ call.done /\ call.p.price.value # NoNum) =>
        (call.out.is_sale <=>
            \/ call.p.price.marked
            \/ call.p.price.previous # NoNum /\ call.p.price.previous > call.p.price.value)

\* C19 (as claimed), for the fields the records of this model carry: every
\* record in the output buffer or in a persisted batch has a product id, a
\* title, a price and a product URL that are not null.
C19_AlwaysAvailable ==
    \A r \in SavedRecords :
        /\ r.product_id # NoId
        /\ r.title # ""
        /\ r.price # NoNum
        /\ r.product_url # NoUrl

\* C20 (as claimed): every call of Dataset.pushData made from a handler
\* carries exactly BATCH_SIZE records, and the one made by the final flush
\* of the main script carries between 1 and BATCH_SIZE records.
C20_FixedSizeBatches ==
    [][\A p \in Workers \cup {Main} :
          (pc[p] = "pushData" /\ pc'[p] = "flushed") =>
              LET n == Len(persisted'[Len(persisted')])
              IN IF p = Main THEN n \in 1..BATCH_SIZE ELSE n = BATCH_SIZE]_vars

\* =====================================================================
\* Properties of the two-hop actor
\* =====================================================================
\* C21 (as claimed): in a run of the listing-then-detail actor no two
\* saved records carry the same product_id, also when the product pages
\* of two different listing entries report the same product id.
C21_NoDuplicateIdsTwoHop ==
    actor = "two-hop" =>
        \A i, j \in 1..Len(savedLog) : i # j => savedLog[i] # savedLog[j]

\* =====================================================================
\* Properties of the placeholder ids
\* =====================================================================
\* C22 (as claimed): when an undisturbed run is over and has not reached
\* the target, every product that the DOM strategy extracted with a
\* placeholder id (its URL holds no id) has a saved record with its URL:
\* none was dropped as the duplicate of a product of another page.
C22_PlaceholderScopedToPage ==
    (pc[Main] = "exited" /\ timeouts = 0 /\ saved < resultsWanted) =>
        \A e \in extracted :
            e.method = "DOM parsing" =>
                \A k \in 1..Len(e.products) :
                    (Eligible(e.products[k]) /\ ProductId(e.products[k]) >= DomBase) =>
                        \E r \in SavedRecords : r.product_url = e.products[k].url

\* =====================================================================
\* Properties of the image URLs
\* =====================================================================
\* the result of a call of normalizeImageUrl is absolute (a "//" input has
\* got https, a path has got the media base path) and a second
\* normalization leaves it as it is
AbsoluteAndStable ==
    /\ call.out.lead \in {"http://", "https://"}
    /\ ~call.out.blank
    /\ call.url.lead = "//" => call.out.lead = "https://"
    /\ call.url.lead = "" => call.out.base
    /\ call.again = call.out

ValidDataIds ==
    {i \in 1..Len(site[1].scripts) :
        /\ site[1].scripts[i].dataId
        /\ site[1].scripts[i].whole.form \in {"json", "escaped"}
        /\ site[1].scripts[i].whole.value.ok}

FirstValidDataId ==
    site[1].scripts[CHOOSE i \in ValidDataIds : \A j \in ValidDataIds : i <= j].whole.value

\* C24: the handler of a listing is never failed by the extraction of the
\* primary payload (without timeouts its request is never taken up again).
\* When a data-id block of the page has a valid body, the payload is that
\* of the first such block, also behind blocks with an invalid body: its
\* products, if it has any, are the page's products by the primary method.
\* When no block yields a payload, the result is null and the waterfall
\* goes on with the API call.
C24_PrimaryNeverRaises ==
    /\ timeouts = 0 =>
          /\ \A req \in queue : req.retries = 0
          /\ \A w \in Workers : pc[w] # "idle" => h[w].retries = 0
    /\ \A w \in Workers :
          (pc[w] # "idle" /\ h[w].url = buildSearchUrl(1)) =>
              /\ ValidDataIds # {} => h[w].windowAsos = FirstValidDataId
              /\ ~Primary.ok => h[w].windowAsos = NullPayload
    /\ \A e \in extracted :
          FirstListing(e) =>
              /\ (ValidDataIds # {} /\ getProductsFromWindow(FirstValidDataId) # <<>>) =>
                    e.method = "window.asos" /\ e.products = getProductsFromWindow(FirstValidDataId)
              /\ ~Primary.ok => Len(apiCalls) > 0 /\ e.method # "window.asos"

\* C24 witness: the first data-id block of the listing has an invalid
\* body, a later one a valid body, and the products of the later one were
\* used by the primary method.
C24_Witness ==
    /\ Len(site[1].scripts) > 1
    /\ site[1].scripts[1] = DataInvalid
    /\ ValidDataIds # {}
    /\ \E e \in extracted : FirstListing(e) /\ e.method = "window.asos"

\* =====================================================================
\* Properties of the pagination
\* =====================================================================
\* C25 (as claimed): whenever nextPageUrl produces a URL, its page
\* parameter is that of the current URL (1 when absent) plus one and the
\* rest of the query is unchanged, whatever page the pagination info holds.
C25_NextPageFromUrl ==
    (call.fn = "nextPageUrl" /\ call.done /\ call.out # NullUrl) =>
        call.out = [call.currentUrl EXCEPT !.page = UrlPage(call.currentUrl) + 1]

\* =====================================================================
\* Properties of the extraction counters
\* =====================================================================
Methods == {"window.asos", "REST API", "__NEXT_DATA__", "DOM parsing"}

\* the counter of an extraction method
Counter(stats, method) ==
    CASE method = "window.asos" -> stats.windowAsos
      [] method = "REST API" -> stats.restApi
      [] method = "__NEXT_DATA__" -> stats.nextData
      [] method = "DOM parsing" -> stats.domParsing

\* C27 (as claimed): the step in which the waterfall of a listing ends
\* increments the counter of the method whose products are used for the
\* page, by one, and no other counter; when no strategy delivers products
\* it increments none.
C27_OneCounterPerPage ==
    [][\A e \in extracted' \ extracted :
          \A m \in Methods :
              Counter(extractionStats', m) - Counter(extractionStats, m) =
                  IF Len(e.products) > 0 /\ m = e.method THEN 1 ELSE 0]_vars

\* =====================================================================
\* Properties of the run state
\* =====================================================================
\* C26 (as claimed): in every reachable state of a run of the listing-only
\* actor, seenIds is the set of the product ids of the records saved so far.
C26_SeenIsSaved == seenIds = Range(savedLog)

\* C28 (as claimed): the pagination info a handler holds for its listing,
\* from whatever strategy, has the page of the listing URL; the API was
\* asked for that page minus one.
C28_PageIsUrlPage ==
    \A w \in Workers :
        (pc[w] # "idle" /\ h[w].label = "LISTING" /\ h[w].pagination.present) =>
            /\ h[w].pagination.page = UrlPage(h[w].url)
            /\ h[w].method = "REST API" =>
                  \E k \in 1..Len(apiCalls) : apiCalls[k].page = UrlPage(h[w].url) - 1

\* =====================================================================
\* Properties of the crawl's progress
\* =====================================================================
\* the listing requests a step adds to the queue (a request the crawler
\* puts back for a retry is no new page)
NewListings == {req \in queue' \ queue : req.label = "LISTING" /\ req.retries = 0}

\* the URL of the handler that takes the step
ActingUrls ==
    {req.url : req \in queue \ queue'}
    \cup {h[w].url : w \in {v \in Workers : pc[v] # "idle" /\ h'[v] # h[v]}}

\* C29 (as claimed): a step of the handler of a listing
\* adds at most one listing to the queue, of a page number strictly greater
\* than that of the listing it handles.
C29_NextPageGreater ==
    [][/\ Cardinality(NewListings) <= 1
       /\ \A new \in NewListings : \A url \in ActingUrls :
             UrlPage(new.url) > UrlPage(url)]_vars

\* C30: in every reachable state of a run of either actor the stop flag
\* implies saved >= resultsWanted; no step decreases saved, clears the stop
\* flag or takes an id out of seenIds.
C30_RunStateMonotone ==
    /\ [](shouldStop => saved >= resultsWanted)
    /\ [][/\ saved' >= saved
          /\ shouldStop => shouldStop'
          /\ seenIds \subseteq seenIds']_vars

\* C30 witness: the run of the listing-only actor has ended with the stop
\* flag set, after more than one save and with more than one id seen.
C30_Witness ==
    /\ actor = "listing-only"
    /\ pc[Main] = "exited"
    /\ shouldStop
    /\ saved > 1
    /\ Cardinality(seenIds) > 1

====
